---- MODULE Spec2Model ----
(***************************************************************************)
(* Job-Searcher-Backend: the provider aggregation and normalization        *)
(* pipeline (src/main.py, src/providers_amazon.py,                         *)
(* src/normalizers/normalize_india.py).                                    *)
(*                                                                         *)
(* A Python str is a sequence of one-character strings; Python's None is   *)
(* the one-element sequence None, whose only element is no character.      *)
(* Each component has its own specification over its own variables; the    *)
(* variables of the other components stay idle.                            *)
(***************************************************************************)
EXTENDS Integers, Sequences, FiniteSets, TLC

VARIABLES
  text, stack, kw_pc,                   \* _kw_stack: argument, result
  jobs, q, loc, out, flt_pc,            \* filter_jobs: arguments, result
  page_size, max_pages, loc_query,      \* fetch_amazon_india: arguments
  page, rows, amz_ret, amz_pc,          \*   loop index, accumulated rows, result
  requests, served,                     \*   upstream: offsets requested, pages answered
  nrm_kind, nrm_rows, company_hint,     \* normalizers: which one, rows, Workday hint
  nrm_out, nrm_pc,                      \*   postings emitted, returned or raised
  wd_param, caller,                     \* request.args["workday"]; who calls gather_jobs_india
  include_amazon, include_netflix,      \* gather_jobs_india: arguments
  workday_targets,                      \*   the list the caller passes, or null
  tasks, results, gathered, agg_pc,     \*   tasks launched, their outcomes, the list returned
  completed,                            \*   the tasks in the order they completed
  sent, answered,                       \*   offsets each task requested; pages Amazon was answered
  ep_gathered, ep_q, ep_loc, strict,    \* jobs_endpoint: list gathered, request parameters
  ep_jobs, enforced, response, ep_pc    \*   local jobs, outcome of the enforcement, response

kwVars == <<text, stack, kw_pc>>
fltVars == <<jobs, q, loc, out, flt_pc>>
amzVars == <<page_size, max_pages, loc_query, page, rows, amz_ret, amz_pc, requests, served>>
nrmVars == <<nrm_kind, nrm_rows, company_hint, nrm_out, nrm_pc>>
aggVars == <<wd_param, caller, include_amazon, include_netflix, workday_targets,
             tasks, results, gathered, agg_pc, completed, sent, answered>>
epVars == <<ep_gathered, ep_q, ep_loc, strict, ep_jobs, enforced, response, ep_pc>>
vars == <<kwVars, fltVars, amzVars, nrmVars, aggVars, epVars>>

----------------------------------------------------------------------------
(* Python values                                                           *)

None == <<"None">>

\* bool(x) is False for None and for the empty str
Falsy(x) == x = None \/ x = <<>>

\* x or y
Or(x, y) == IF Falsy(x) THEN y ELSE x

UpperChars == <<"A","B","C","D","E","F","G","H","I","J","K","L","M",
                "N","O","P","Q","R","S","T","U","V","W","X","Y","Z">>
LowerChars == <<"a","b","c","d","e","f","g","h","i","j","k","l","m",
                "n","o","p","q","r","s","t","u","v","w","x","y","z">>

LowerChar(c) ==
  IF \E i \in DOMAIN UpperChars : UpperChars[i] = c
  THEN LowerChars[CHOOSE i \in DOMAIN UpperChars : UpperChars[i] = c]
  ELSE c

UpperChar(c) ==
  IF \E i \in DOMAIN LowerChars : LowerChars[i] = c
  THEN UpperChars[CHOOSE i \in DOMAIN LowerChars : LowerChars[i] = c]
  ELSE c

\* str.lower()
Lower(s) == [i \in DOMAIN s |-> LowerChar(s[i])]

\* str.capitalize(): first character upper-cased, the rest lower-cased
Capitalize(s) == [i \in DOMAIN s |-> IF i = 1 THEN UpperChar(s[i]) ELSE LowerChar(s[i])]

\* needle in hay
Contains(hay, needle) ==
  \E i \in 0..(Len(hay) - Len(needle)) : SubSeq(hay, i + 1, i + Len(needle)) = needle

\* s.startswith(p)
StartsWith(s, p) == Len(s) >= Len(p) /\ SubSeq(s, 1, Len(p)) = p

\* s[:n]
Take(s, n) == SubSeq(s, 1, IF Len(s) < n THEN Len(s) ELSE n)

Range(s) == {s[i] : i \in DOMAIN s}

RECURSIVE Concat(_)
Concat(ss) == IF ss = <<>> THEN <<>> ELSE Head(ss) \o Concat(Tail(ss))

\* sep.join(ss)
RECURSIVE Join(_, _)
Join(sep, ss) ==
  IF ss = <<>> THEN <<>>
  ELSE IF Len(ss) = 1 THEN ss[1]
  ELSE ss[1] \o sep \o Join(sep, Tail(ss))

\* All sequences over S of length at most n
SeqsUpTo(S, n) == UNION {[1..k -> S] : k \in 0..n}

----------------------------------------------------------------------------
(* normalize_india._kw_stack                                               *)

kws ==
  << <<"p","y","t","h","o","n">>,
     <<"f","l","a","s","k">>,
     <<"f","a","s","t","a","p","i">>,
     <<"d","j","a","n","g","o">>,
     <<"j","a","v","a","s","c","r","i","p","t">>,
     <<"t","y","p","e","s","c","r","i","p","t">>,
     <<"r","e","a","c","t">>,
     <<"N","e","x","t",".","j","s">>,
     <<"n","o","d","e">>,
     <<"j","a","v","a">>,
     <<"s","p","r","i","n","g">>,
     <<"k","o","t","l","i","n">>,
     <<"g","o">>,
     <<"g","o","l","a","n","g">>,
     <<"r","u","s","t">>,
     <<"s","w","i","f","t">>,
     <<"s","w","i","f","t","u","i">>,
     <<"a","w","s">>,
     <<"g","c","p">>,
     <<"a","z","u","r","e">>,
     <<"d","o","c","k","e","r">>,
     <<"k","u","b","e","r","n","e","t","e","s">>,
     <<"p","o","s","t","g","r","e","s">>,
     <<"m","y","s","q","l">>,
     <<"m","o","n","g","o","d","b">>,
     <<"r","e","d","i","s">>,
     <<"g","r","a","p","h","q","l">> >>

NextJs == <<"N","e","x","t",".","j","s">>

\* [("Next.js" if k.lower()=="next.js" else k) for k in ks if k.lower() in blob]
RECURSIVE KwScan(_, _)
KwScan(ks, blob) ==
  IF ks = <<>> THEN <<>>
  ELSE LET k == Head(ks)
       IN  (IF Contains(blob, Lower(k))
            THEN << IF Lower(k) = Lower(NextJs) THEN NextJs ELSE k >>
            ELSE <<>>) \o KwScan(Tail(ks), blob)

\* A slip of _kw_stack: the text is scanned as given, not lower-cased.
_kw_stack_cased(t) == KwScan(kws, t)

_kw_stack(t) == KwScan(kws, Lower(t))

----------------------------------------------------------------------------
(* Specification of _kw_stack over bounded texts                           *)

\* Number of fragments a text is put together from
MaxFrags == 3

Fragments ==
  { <<" ">>,
    <<"R","e","a","c","t">>,
    <<"j","a","v","a">>,
    <<"s","c","r","i","p","t">>,
    <<"D","j","a","n","G","O">>,
    <<"l","a","n","g">>,
    <<"N","E","X","T",".","J","S">>,
    <<"A","W","S">> }

ExampleText ==
  <<"S","e","n","i","o","r"," ","R","e","a","c","t"," ","E","n","g","i","n","e","e","r"," ",
    "w","i","t","h"," ","A","W","S"," ","a","n","d"," ","D","o","c","k","e","r"," ",
    "e","x","p","e","r","i","e","n","c","e">>

KwTexts == {Concat(fs) : fs \in SeqsUpTo(Fragments, MaxFrags)} \cup {ExampleText}

KwIdle == text = <<>> /\ stack = <<>> /\ kw_pc = "idle"

KwStart == text \in KwTexts /\ stack = <<>> /\ kw_pc = "call"

KwStack ==
  /\ kw_pc = "call"
  /\ stack' = _kw_stack(text)
  /\ kw_pc' = "done"
  /\ UNCHANGED <<text, fltVars, amzVars, nrmVars, aggVars, epVars>>

----------------------------------------------------------------------------
(* main.filter_jobs                                                        *)

WhiteSpace == {" ", "\t", "\n"}

\* str.split() without arguments: the maximal runs of non-whitespace
RECURSIVE SplitWs(_, _)
SplitWs(s, cur) ==
  IF s = <<>> THEN (IF cur = <<>> THEN <<>> ELSE <<cur>>)
  ELSE IF Head(s) \in WhiteSpace
       THEN (IF cur = <<>> THEN <<>> ELSE <<cur>>) \o SplitWs(Tail(s), <<>>)
       ELSE SplitWs(Tail(s), Append(cur, Head(s)))

Split(s) == SplitWs(s, <<>>)

\* str(x) as an f-string field renders it: None becomes the text "None"
Str(x) == IF x = None THEN <<"N","o","n","e">> ELSE x

\* tokens = q.lower().split() if q else []
Tokens(qq) == IF Falsy(qq) THEN <<>> ELSE Split(Lower(qq))

\* blob = f"{j.title} {j.company} {j.location} {' '.join(j.tech_stack)} {(j.description_snippet or '')}".lower()
Blob(j) ==
  Lower(Str(j.title) \o <<" ">> \o Str(j.company) \o <<" ">> \o Str(j.location) \o <<" ">>
        \o Join(<<" ">>, j.tech_stack) \o <<" ">> \o Or(j.description_snippet, <<>>))

\* match_q = True; if tokens: match_q = any(t in blob for t in tokens)
match_q(j, tokens) ==
  IF tokens # <<>> THEN \E i \in DOMAIN tokens : Contains(Blob(j), tokens[i]) ELSE TRUE

\* match_loc = True; if loc: match_loc = (j.location or "").lower().find(loc.lower()) != -1
match_loc(j, l) ==
  IF ~Falsy(l) THEN Contains(Lower(Or(j.location, <<>>)), Lower(l)) ELSE TRUE

\* A slip of ok: the two dimensions are OR-ed.
ok_either(j, tokens, l) == match_q(j, tokens) \/ match_loc(j, l)

ok(j, tokens, l) == match_q(j, tokens) /\ match_loc(j, l)

\* [j for j in js if ok(j)]
RECURSIVE Keep(_, _, _)
Keep(js, tokens, l) ==
  IF js = <<>> THEN <<>>
  ELSE (IF ok(Head(js), tokens, l) THEN <<Head(js)>> ELSE <<>>) \o Keep(Tail(js), tokens, l)

\* A slip of filter_jobs: no early return, and the query predicate is
\* any(...) also when there are no tokens.
RECURSIVE KeepAny(_, _, _)
KeepAny(js, tokens, l) ==
  IF js = <<>> THEN <<>>
  ELSE (IF (\E i \in DOMAIN tokens : Contains(Blob(Head(js)), tokens[i])) /\ match_loc(Head(js), l)
        THEN <<Head(js)>> ELSE <<>>) \o KeepAny(Tail(js), tokens, l)

filter_jobs_any(js, qq, l) == KeepAny(js, Tokens(qq), l)

filter_jobs(js, qq, l) ==
  IF Falsy(qq) /\ Falsy(l) THEN js ELSE Keep(js, Tokens(qq), l)

----------------------------------------------------------------------------
(* Specification of filter_jobs over bounded posting lists                 *)

\* Length of the posting list handed to filter_jobs
MaxJobs == 2

Posting(src, company, title, location, tech, url, job_id, snippet) ==
  [id |-> None, source |-> src, company |-> company, title |-> title,
   location |-> location, remote |-> None, tech_stack |-> tech,
   compensation |-> None, url |-> url, job_id |-> job_id,
   description_snippet |-> snippet]

s_python == <<"p","y","t","h","o","n">>
s_rust == <<"r","u","s","t">>
s_Pune == <<"P","u","n","e">>
s_Mumbai == <<"M","u","m","b","a","i">>
s_BackendEngineer == <<"B","a","c","k","e","n","d"," ","E","n","g","i","n","e","e","r">>

FltPostings ==
  { Posting(<<"w">>, <<"P","w","c">>, s_BackendEngineer, s_Pune, <<s_python>>, None, <<"1">>, None),
    Posting(<<"a">>, <<"A","m","z">>, <<"R","u","s","t"," ","D","e","v">>,
            <<"M","U","M","B","A","I",","," ","I","n","d","i","a">>, <<s_rust>>, None, <<"2">>,
            <<"C","+","+">>),
    Posting(<<"n">>, <<"N","f","l","x">>, <<"Q","A">>, None, <<>>, None, <<>>,
            <<"J","a","v","a"," ","t","e","s","t","s">>),
    Posting(<<"w">>, <<"X">>, <<"P","M">>, None, <<>>, None, <<>>, None) }

FltQueries ==
  { None, <<>>, <<" ">>,
    <<"j","a","v","a"," ","p","y","t","h","o","n">>,
    <<"N","O","N","E">>,
    <<"p","w","c"," "," ","r","u","s","t">>,
    <<"d","e","v","q","a">> }

FltLocs == { None, <<>>, s_Mumbai, <<"p","u","n","e">>, <<"n","o","n","e">> }

FltIdle == jobs = <<>> /\ q = None /\ loc = None /\ out = <<>> /\ flt_pc = "idle"

FltStart ==
  /\ jobs \in SeqsUpTo(FltPostings, MaxJobs)
  /\ q \in FltQueries
  /\ loc \in FltLocs
  /\ out = <<>>
  /\ flt_pc = "call"

FilterJobs ==
  /\ flt_pc = "call"
  /\ out' = filter_jobs(jobs, q, loc)
  /\ flt_pc' = "done"
  /\ UNCHANGED <<jobs, q, loc, kwVars, amzVars, nrmVars, aggVars, epVars>>

----------------------------------------------------------------------------
(* Raw records: a dict from keys to JSON values, a missing key is absent   *)
(* from the DOMAIN, a JSON null is None                                    *)

\* r.get(k)
Get(r, k) == IF k \in DOMAIN r THEN r[k] ELSE None

\* r.get(k, d)
GetD(r, k, d) == IF k \in DOMAIN r THEN r[k] ELSE d

----------------------------------------------------------------------------
(* providers_amazon.fetch_amazon_india                                     *)

\* loc = rec.get("normalized_location") or rec.get("city_state_or_country") or rec.get("location") or ""
AmzLoc(rec) ==
  Or(Or(Or(Get(rec, "normalized_location"), Get(rec, "city_state_or_country")),
        Get(rec, "location")), <<>>)

IndiaTokens ==
  { <<"i","n","d","i","a">>, <<","," ","i","n">>, <<" ","i","n","d">>,
    <<"(","i","n",")">>, <<" ","i","n"," ">> }

_is_india(rec) == \E token \in IndiaTokens : Contains(Lower(Str(AmzLoc(rec))), token)

_city_matches(rec, city) ==
  IF Falsy(city) THEN TRUE ELSE Contains(Lower(Str(AmzLoc(rec))), Lower(city))

\* [r for r in rs if _is_india(r)]
RECURSIVE OnlyIndia(_)
OnlyIndia(rs) ==
  IF rs = <<>> THEN <<>>
  ELSE (IF _is_india(Head(rs)) THEN <<Head(rs)>> ELSE <<>>) \o OnlyIndia(Tail(rs))

\* [r for r in rs if _city_matches(r, loc_query)]
RECURSIVE OnlyCity(_, _)
OnlyCity(rs, city) ==
  IF rs = <<>> THEN <<>>
  ELSE (IF _city_matches(Head(rs), city) THEN <<Head(rs)>> ELSE <<>>) \o OnlyCity(Tail(rs), city)

\* A slip of the loop's exits: only an empty page ends the pagination.
EndOfResultsEmptyOnly(page_rows, size) == page_rows = <<>>

\* if not page_rows: break ... if len(page_rows) < page_size: break
EndOfResults(page_rows, size) == page_rows = <<>> \/ Len(page_rows) < size

\* Largest page_size and max_pages fetch_amazon_india is called with
MaxPageSize == 2
MaxPagesCap == 3

AmzRowKinds ==
  { [normalized_location |-> <<"P","u","n","e",","," ","I","n","d","i","a">>],
    [normalized_location |-> None, location |-> <<"S","e","a","t","t","l","e",","," ","W","A">>] }

AmzLocQueries == { None, <<"p","u","n","e">> }

\* What the upstream may answer to one page request of result_limit size
PageAnswers(size) == SeqsUpTo(AmzRowKinds, size)

AmzIdle ==
  /\ page_size = 0 /\ max_pages = 0 /\ loc_query = None /\ page = 0 /\ rows = <<>>
  /\ amz_ret = <<>> /\ amz_pc = "idle" /\ requests = <<>> /\ served = <<>>

AmzStart ==
  /\ page_size \in 1..MaxPageSize
  /\ max_pages \in 1..MaxPagesCap
  /\ loc_query \in AmzLocQueries
  /\ page = 0 /\ rows = <<>> /\ amz_ret = <<>> /\ requests = <<>> /\ served = <<>>
  /\ amz_pc = "fetch"

\* One pass of the loop body: the page at offset page * page_size is
\* requested and answered.
FetchPage ==
  /\ amz_pc = "fetch"
  /\ \E page_rows \in PageAnswers(page_size) :
       /\ requests' = Append(requests, page * page_size)
       /\ served' = Append(served, page_rows)
       /\ rows' = IF page_rows = <<>> THEN rows ELSE rows \o page_rows
       /\ IF EndOfResults(page_rows, page_size) \/ page + 1 >= max_pages
          THEN amz_pc' = "filter" /\ page' = page
          ELSE amz_pc' = "fetch" /\ page' = page + 1
  /\ UNCHANGED <<page_size, max_pages, loc_query, amz_ret, kwVars, fltVars, nrmVars, aggVars, epVars>>

\* _fetch_page raises (HTTP error status, unparsable body, timeout): the
\* exception leaves fetch_amazon_india.
FetchPageRaises ==
  /\ amz_pc = "fetch"
  /\ requests' = Append(requests, page * page_size)
  /\ amz_pc' = "raised"
  /\ UNCHANGED <<page_size, max_pages, loc_query, page, rows, amz_ret, served, kwVars, fltVars, nrmVars, aggVars, epVars>>

\* After the loop: the locale and city predicates, then return.
AmzReturn ==
  /\ amz_pc = "filter"
  /\ amz_ret' = (IF ~Falsy(loc_query) THEN OnlyCity(OnlyIndia(rows), loc_query) ELSE OnlyIndia(rows))
  /\ amz_pc' = "done"
  /\ UNCHANGED <<page_size, max_pages, loc_query, page, rows, requests, served, kwVars, fltVars, nrmVars, aggVars, epVars>>

AmzNext == FetchPage \/ FetchPageRaises \/ AmzReturn

----------------------------------------------------------------------------
(* normalizers.normalize_india: norm_workday, norm_netflix,                *)
(* normalize_amazon_india.  A string-valued key holds a str or null; the   *)
(* structured keys locations and bulletFields hold [null |-> TRUE] or      *)
(* [null |-> FALSE, val |-> ...].  A normalizer returns                    *)
(* [raised |-> FALSE, out |-> postings], or [raised |-> TRUE, out |-> <<>>]*)
(* when an exception leaves it.                                            *)

s_india == <<"i","n","d","i","a">>
SnippetLen == 240

\* [l.get("city","") for l in locs if l.get("city")]
RECURSIVE Cities(_)
Cities(locs) ==
  IF locs = <<>> THEN <<>>
  ELSE (IF ~Falsy(Get(Head(locs), "city")) THEN <<Get(Head(locs), "city")>> ELSE <<>>)
       \o Cities(Tail(locs))

\* Iterating r.get("locations", []) raises TypeError when the key holds null;
\* the list is only evaluated when locationsText is falsy.
WdLocRaises(r) ==
  Falsy(Get(r, "locationsText")) /\ "locations" \in DOMAIN r /\ r.locations.null

\* loc = r.get("locationsText") or ", ".join([...]) or None
WdLoc(r) ==
  IF ~Falsy(Get(r, "locationsText")) THEN Get(r, "locationsText")
  ELSE Or(Join(<<",", " ">>, Cities(IF "locations" \in DOMAIN r THEN r.locations.val ELSE <<>>)),
          None)

\* loc and "india" in loc.lower()
WdIsIndia(r) == ~Falsy(WdLoc(r)) /\ Contains(Lower(WdLoc(r)), s_india)

\* A slip of the URL rewrite: the tenant hint is left out of the host.
WdUrlNoHint(r, hint) ==
  LET external == Or(Get(r, "externalPath"), Get(r, "externalPathTriggered"))
  IN  IF ~Falsy(external) /\ StartsWith(external, <<"/">>)
      THEN <<"h","t","t","p","s",":","/","/">> \o <<".","m","y","w","o","r","k","d","a","y","j","o","b","s",".","c","o","m">> \o external
      ELSE external

\* external = r.get("externalPath") or r.get("externalPathTriggered")
\* if external and external.startswith("/"): external = f"https://{company_hint}.myworkdayjobs.com{external}"
WdUrl(r, hint) ==
  LET external == Or(Get(r, "externalPath"), Get(r, "externalPathTriggered"))
  IN  IF ~Falsy(external) /\ StartsWith(external, <<"/">>)
      THEN <<"h","t","t","p","s",":","/","/">> \o Str(hint) \o <<".","m","y","w","o","r","k","d","a","y","j","o","b","s",".","c","o","m">> \o external
      ELSE external

\* r.get("bulletFields", {}).get("jobId") raises AttributeError when the key holds null
WdBulletRaises(r) == "bulletFields" \in DOMAIN r /\ r.bulletFields.null

\* str(r.get("bulletFields", {}).get("jobId") or r.get("id") or "")
WdJobId(r) ==
  LET bullet == IF "bulletFields" \in DOMAIN r THEN r.bulletFields.val ELSE <<>>
  IN  Str(Or(Or(Get(bullet, "jobId"), Get(r, "id")), <<>>))

WdPosting(r, hint) ==
  LET title == Or(Or(Get(r, "title"), Get(r, "title_facet")), <<>>)
  IN  Posting(<<"w","o","r","k","d","a","y">>, Capitalize(hint), title, WdLoc(r),
              _kw_stack(title \o <<" ">> \o Or(GetD(r, "jobFamily", <<>>), <<>>)),
              WdUrl(r, hint), WdJobId(r), Take(title, SnippetLen))

RECURSIVE WdLoop(_, _, _)
WdLoop(rs, hint, acc) ==
  IF rs = <<>> THEN [raised |-> FALSE, out |-> acc]
  ELSE LET r == Head(rs)
       IN  IF WdLocRaises(r) THEN [raised |-> TRUE, out |-> <<>>]
           ELSE IF ~WdIsIndia(r) THEN WdLoop(Tail(rs), hint, acc)
           ELSE IF WdBulletRaises(r) THEN [raised |-> TRUE, out |-> <<>>]
           ELSE WdLoop(Tail(rs), hint, Append(acc, WdPosting(r, hint)))

norm_workday(rs, hint) == WdLoop(rs, hint, <<>>)

\* loc = p.get("location") or ""
NfLoc(p) == Or(Get(p, "location"), <<>>)

\* "india" in loc.lower()
NfIsIndia(p) == Contains(Lower(NfLoc(p)), s_india)

\* p.get("name","") is None when the key holds null: _kw_stack(None) raises
\* AttributeError (and title=None fails the model's validation)
NfNameRaises(p) == "name" \in DOMAIN p /\ p.name = None

NfPosting(p) ==
  LET name == GetD(p, "name", <<>>)
  IN  Posting(<<"n","e","t","f","l","i","x">>, <<"N","e","t","f","l","i","x">>, name, NfLoc(p), _kw_stack(name),
              Get(p, "canonicalPositionUrl"),
              Str(Or(Or(Get(p, "ats_job_id"), Get(p, "id")), <<>>)),
              Take(name, SnippetLen))

RECURSIVE NfLoop(_, _)
NfLoop(ps, acc) ==
  IF ps = <<>> THEN [raised |-> FALSE, out |-> acc]
  ELSE LET p == Head(ps)
       IN  IF ~NfIsIndia(p) THEN NfLoop(Tail(ps), acc)
           ELSE IF NfNameRaises(p) THEN [raised |-> TRUE, out |-> <<>>]
           ELSE NfLoop(Tail(ps), Append(acc, NfPosting(p)))

norm_netflix(ps) == NfLoop(ps, <<>>)

AmzPosting(r) ==
  LET title == Or(Or(Get(r, "title"), Get(r, "job_title")), <<>>)
      l == Or(Or(Get(r, "normalized_location"), Get(r, "city_state_or_country")), Get(r, "location"))
      path == Or(Get(r, "job_path"), <<>>)
      url == IF path # <<>> THEN <<"h","t","t","p","s",":","/","/","w","w","w",".","a","m","a","z","o","n",".","j","o","b","s">> \o path ELSE None
      tech == _kw_stack(title \o <<" ">> \o Str(GetD(r, "basic_qualifications", <<>>))
                        \o <<" ">> \o Str(GetD(r, "preferred_qualifications", <<>>)))
  IN  Posting(<<"a","m","a","z","o","n">>, Or(Get(r, "company_name"), <<"A","m","a","z","o","n">>), title, l, tech, url,
              Str(Or(Or(Get(r, "id"), Get(r, "job_id")), <<>>)),
              Take(Or(Or(Get(r, "description_summary"), Get(r, "description")), title), SnippetLen))

RECURSIVE AmzLoop(_, _)
AmzLoop(rs, acc) ==
  IF rs = <<>> THEN [raised |-> FALSE, out |-> acc]
  ELSE AmzLoop(Tail(rs), Append(acc, AmzPosting(Head(rs))))

normalize_amazon_india(rs) == AmzLoop(rs, <<>>)

----------------------------------------------------------------------------
(* Specification of the normalizers over bounded batches of raw records    *)

\* Number of raw records in a batch
MaxRows == 2

s_BengaluruIndia == <<"B","e","n","g","a","l","u","r","u",","," ","I","n","d","i","a">>
s_SeattleWA == <<"S","e","a","t","t","l","e",","," ","W","A">>
s_job123 == <<"/","j","o","b","/","1","2","3">>
s_pwc == <<"p","w","c">>

WdRows ==
  { [title |-> <<"R","e","a","c","t"," ","D","e","v">>, locationsText |-> s_BengaluruIndia, externalPath |-> s_job123,
     bulletFields |-> [null |-> FALSE, val |-> [jobId |-> <<"7">>]]],
    [title |-> <<"G","o"," ","D","e","v">>, locationsText |-> s_SeattleWA, externalPath |-> <<"/","j","9">>],
    [title_facet |-> <<"Q","A">>, id |-> <<"4","2">>,
     locations |-> [null |-> FALSE, val |-> <<[city |-> <<"P","u","n","e"," ","I","N","D","I","A">>], [k \in {} |-> <<>>]>>],
     externalPath |-> <<"h","t","t","p","s",":","/","/","x","/","j">>],
    [locationsText |-> <<"I","N","D","I","A">>],
    [title |-> <<"P","M">>, locations |-> [null |-> TRUE]],
    [title |-> <<"P","M">>, locationsText |-> <<"C","h","e","n","n","a","i",","," ","I","n","d","i","a">>, bulletFields |-> [null |-> TRUE],
     externalPath |-> <<"/","j">>],
    [k \in {} |-> <<>>],
    [title |-> None, title_facet |-> <<"D","e","v">>, locationsText |-> None,
     locations |-> [null |-> FALSE, val |-> <<[city |-> <<"D","e","l","h","i">>]>>],
     externalPathTriggered |-> <<"/","t">>] }

Hints == { s_pwc, <<"a","C">>, <<>> }

NfRows ==
  { [location |-> <<"M","u","m","b","a","i",","," ","I","n","d","i","a">>, name |-> <<"J","a","v","a"," ","E","n","g","i","n","e","e","r">>, canonicalPositionUrl |-> <<"u">>,
     ats_job_id |-> <<"J","1">>],
    [location |-> <<"L","o","s"," ","G","a","t","o","s">>, name |-> <<"X">>],
    [location |-> <<"I","N","D","I","A"," ","-"," ","R","e","m","o","t","e">>],
    [location |-> None, name |-> <<"D","e","v">>],
    [location |-> <<"P","u","n","e",","," ","i","n","d","i","a">>, name |-> None],
    [k \in {} |-> <<>>] }

AmzRows ==
  { [title |-> <<"S","D","E">>, normalized_location |-> <<"P","u","n","e",","," ","I","n","d","i","a">>, job_path |-> <<"/","1">>,
     id |-> <<"1">>, company_name |-> <<"A","D","C">>, description |-> <<"a","w","s"," ","t","h","i","n","g","s">>],
    [job_title |-> <<"O","p","s">>, location |-> <<"H","y","d","e","r","a","b","a","d",","," ","I","N">>, basic_qualifications |-> s_python],
    [k \in {} |-> <<>>],
    [title |-> None, company_name |-> None, job_path |-> None,
     city_state_or_country |-> <<"C","h","e","n","n","a","i">>] }

NrmIdle ==
  /\ nrm_kind = "none" /\ nrm_rows = <<>> /\ company_hint = <<>>
  /\ nrm_out = <<>> /\ nrm_pc = "idle"

NrmStart ==
  /\ nrm_kind \in {"workday", "netflix", "amazon"}
  /\ nrm_rows \in SeqsUpTo(CASE nrm_kind = "workday" -> WdRows
                             [] nrm_kind = "netflix" -> NfRows
                             [] OTHER -> AmzRows, MaxRows)
  /\ company_hint \in (IF nrm_kind = "workday" THEN Hints ELSE {<<>>})
  /\ nrm_out = <<>>
  /\ nrm_pc = "call"

\* The call returns the postings, or the exception leaves it.
Returned(res) ==
  /\ nrm_out' = res.out
  /\ nrm_pc' = IF res.raised THEN "raised" ELSE "done"
  /\ UNCHANGED <<nrm_kind, nrm_rows, company_hint, kwVars, fltVars, amzVars, aggVars, epVars>>

NormWorkday ==
  nrm_pc = "call" /\ nrm_kind = "workday" /\ Returned(norm_workday(nrm_rows, company_hint))

NormNetflix ==
  nrm_pc = "call" /\ nrm_kind = "netflix" /\ Returned(norm_netflix(nrm_rows))

NormalizeAmazonIndia ==
  nrm_pc = "call" /\ nrm_kind = "amazon" /\ Returned(normalize_amazon_india(nrm_rows))

NrmNext == NormWorkday \/ NormNetflix \/ NormalizeAmazonIndia

----------------------------------------------------------------------------
(* main.jobs_endpoint (the Workday override) and main.gather_jobs_india.   *)
(* A list argument that may be None is [null |-> TRUE] or                  *)
(* [null |-> FALSE, val |-> list].  A task's outcome is                    *)
(* [state |-> "pending" | "ok" | "exc", jobs |-> postings].                *)

\* s.split(sep): the pieces between the separators, empty pieces included
RECURSIVE SplitOn(_, _, _)
SplitOn(s, sep, cur) ==
  IF s = <<>> THEN <<cur>>
  ELSE IF Head(s) = sep THEN <<cur>> \o SplitOn(Tail(s), sep, <<>>)
  ELSE SplitOn(Tail(s), sep, Append(cur, Head(s)))

RECURSIVE LStrip(_)
LStrip(s) == IF s # <<>> /\ Head(s) \in WhiteSpace THEN LStrip(Tail(s)) ELSE s

RECURSIVE RStrip(_)
RStrip(s) ==
  IF s # <<>> /\ s[Len(s)] \in WhiteSpace THEN RStrip(SubSeq(s, 1, Len(s) - 1)) ELSE s

\* s.strip()
Strip(s) == RStrip(LStrip(s))

\* A slip of the unpacking: an entry with more than three parts is kept, cut
\* to its first three.
RECURSIVE TriplesLenient(_)
TriplesLenient(parts) ==
  IF parts = <<>> THEN <<>>
  ELSE LET fields == SplitOn(Head(parts), ":", <<>>)
       IN  (IF Len(fields) >= 3 THEN <<SubSeq(fields, 1, 3)>> ELSE <<>>)
             \o TriplesLenient(Tail(parts))

\* for part in parts: try: a, b, c = part.split(":"); triples.append((a, b, c))
\*                     except ValueError: continue
RECURSIVE Triples(_)
Triples(parts) ==
  IF parts = <<>> THEN <<>>
  ELSE LET fields == SplitOn(Head(parts), ":", <<>>)
       IN  (IF Len(fields) = 3 THEN <<fields>> ELSE <<>>) \o Triples(Tail(parts))

Null == [null |-> TRUE]
List(l) == [null |-> FALSE, val |-> l]

\* The override list jobs_endpoint parses from the request and passes on
EndpointTargets(wd) ==
  LET p == Strip(wd)
  IN  IF p # <<>> /\ Triples(SplitOn(p, ",", <<>>)) # <<>>
      THEN List(Triples(SplitOn(p, ",", <<>>)))
      ELSE Null

DefaultTarget ==
  << <<"p","w","c",".","w","d","3",".","m","y","w","o","r","k","d","a","y","j","o","b","s",".","c","o","m">>,
     <<"G","l","o","b","a","l","_","E","x","p","e","r","i","e","n","c","e","d","_","C","a","r","e","e","r","s">>,
     <<"p","w","c">> >>

\* gather_jobs_india, the Workday tenants: the argument is overwritten with
\* None, the request's "workday" parameter is parsed again, and the built-in
\* tenant is used when that leaves nothing.
GatherTargets(given, wd) ==
  LET p == Strip(wd)
      parsed == IF p # <<>> THEN Triples(SplitOn(p, ",", <<>>)) ELSE <<>>
  IN  IF parsed # <<>> THEN parsed ELSE <<DefaultTarget>>

RECURSIVE WorkdayTasks(_)
WorkdayTasks(targets) ==
  IF targets = <<>> THEN <<>>
  ELSE << [kind |-> "workday", host |-> Head(targets)[1], site |-> Head(targets)[2],
           hint |-> Head(targets)[3]] >> \o WorkdayTasks(Tail(targets))

\* tasks = []; if include_amazon: ...; for host, site, hint in workday_targets: ...;
\* if include_netflix: ...
Launched(amazon, netflix, given, wd) ==
  (IF amazon THEN <<[kind |-> "amazon"]>> ELSE <<>>)
    \o WorkdayTasks(GatherTargets(given, wd))
    \o (IF netflix THEN <<[kind |-> "netflix"]>> ELSE <<>>)

\* A slip of the fan-in: gather without return_exceptions=True, so that a
\* task's exception leaves gather_jobs_india.
RECURSIVE CollectPropagating(_, _)
CollectPropagating(res, acc) ==
  IF res = <<>> THEN [raised |-> FALSE, jobs |-> acc]
  ELSE IF Head(res).state = "exc" THEN [raised |-> TRUE, jobs |-> <<>>]
  ELSE CollectPropagating(Tail(res), acc \o Head(res).jobs)

\* A slip of the fan-in: the results are taken in the order the tasks
\* completed (asyncio.as_completed) instead of the order of the tasks.
CollectAsCompleted(res, acc) ==
  [raised |-> FALSE,
   jobs |-> acc \o Concat([k \in DOMAIN completed |-> res[completed[k]].jobs])]

\* A slip of the fan-in: the postings are taken from the tasks in turn, one
\* of each task at a time.
RECURSIVE CollectInterleaved(_, _)
CollectInterleaved(res, acc) ==
  IF \A i \in DOMAIN res : res[i].jobs = <<>> THEN [raised |-> FALSE, jobs |-> acc]
  ELSE CollectInterleaved(
         [i \in DOMAIN res |-> [res[i] EXCEPT !.jobs = IF @ = <<>> THEN <<>> ELSE Tail(@)]],
         acc \o Concat([i \in DOMAIN res |->
                          IF res[i].jobs = <<>> THEN <<>> ELSE <<Head(res[i].jobs)>>]))

\* for idx, res in enumerate(results): if isinstance(res, Exception): continue
\*                                     jobs.extend(res)
RECURSIVE Collect(_, _)
Collect(res, acc) ==
  IF res = <<>> THEN [raised |-> FALSE, jobs |-> acc]
  ELSE IF Head(res).state = "exc" THEN Collect(Tail(res), acc)
  ELSE Collect(Tail(res), acc \o Head(res).jobs)

----------------------------------------------------------------------------
(* Specification of the aggregation                                        *)

\* Number of postings one source task returns
MaxTaskJobs == 2

WdParams ==
  { <<>>, <<" ">>,
    <<"a",":","b",":","c">>,
    <<"a",":","b">>,
    <<" ","a",":","b",":","c",",","d",":","e",":","f">>,
    <<"a",":","b",",","d",":","e",":","f",",">>,
    <<"a",":","b",":","c",":","d",",",":",":">> }

T1 == << <<"x">>, <<"y">>, <<"z">> >>
T2 == << <<"a">>, <<"b">>, <<"c">> >>

\* What a caller other than jobs_endpoint may pass as workday_targets
DirectTargets == { Null, List(<<T1>>), List(<<T2, T1>>) }

\* The postings task i returns: n postings, told apart by task and position
TaskJobs(i, n) == [k \in 1..n |-> <<i, k>>]

\* fetch_amazon_india(query=query, loc_query=city): the wrapper leaves
\* page_size and max_pages at their defaults
page_size_default == 50
max_pages_default == 5

\* A slip of the loop: the offset of the page before is requested again.
NextOffsetRepeated(requested) == requested[Len(requested)]

\* for page in range(max_pages): offset = page * page_size
NextOffset(requested) == Len(requested) * page_size_default

\* A slip of the wrapper: when a page request fails after earlier pages were
\* answered, the task returns a posting of the rows it holds.
FailedPartial(i) ==
  IF Len(sent[i]) >= 2 THEN [state |-> "ok", jobs |-> TaskJobs(i, 1)]
  ELSE [state |-> "exc", jobs |-> <<>>]

\* The exception leaves the fetcher and its wrapper: the task's outcome is
\* the exception, the rows of the earlier pages are lost with the frame.
Failed(i) == [state |-> "exc", jobs |-> <<>>]

AggIdle ==
  /\ wd_param = <<>> /\ caller = "none" /\ include_amazon = FALSE /\ include_netflix = FALSE
  /\ workday_targets = Null /\ tasks = <<>> /\ results = <<>> /\ gathered = <<>>
  /\ agg_pc = "idle" /\ completed = <<>> /\ sent = <<>> /\ answered = 0

\* Either a /jobs request arrives, or gather_jobs_india is called with
\* arguments of the caller's own while a request is being served.
AggStart ==
  /\ wd_param \in WdParams
  /\ include_amazon \in BOOLEAN
  /\ include_netflix \in BOOLEAN
  /\ caller \in {"jobs_endpoint", "direct"}
  /\ workday_targets \in (IF caller = "direct" THEN DirectTargets ELSE {Null})
  /\ agg_pc = (IF caller = "direct" THEN "call" ELSE "request")
  /\ tasks = <<>> /\ results = <<>> /\ gathered = <<>> /\ completed = <<>>
  /\ sent = <<>> /\ answered = 0

\* jobs_endpoint parses the override and calls gather_jobs_india.
JobsEndpoint ==
  /\ agg_pc = "request"
  /\ workday_targets' = EndpointTargets(wd_param)
  /\ agg_pc' = "call"
  /\ UNCHANGED <<wd_param, caller, include_amazon, include_netflix, tasks, results, gathered, completed,
                 sent, answered, kwVars, fltVars, amzVars, nrmVars, epVars>>

\* gather_jobs_india up to asyncio.gather: the tasks are launched, and each
\* runs up to its first request (Amazon's page at offset 0, the Workday
\* tenant's POST with offset 0, Netflix's GET).
GatherLaunch ==
  /\ agg_pc = "call"
  /\ tasks' = Launched(include_amazon, include_netflix, workday_targets, wd_param)
  /\ results' = [i \in DOMAIN tasks' |-> [state |-> "pending", jobs |-> <<>>]]
  /\ sent' = [i \in DOMAIN tasks' |-> <<0>>]
  /\ answered' = 0
  /\ agg_pc' = "await"
  /\ UNCHANGED <<wd_param, caller, include_amazon, include_netflix, workday_targets, gathered, completed,
                 kwVars, fltVars, amzVars, nrmVars, epVars>>

\* The Amazon task is answered a full page while pages remain: rows.extend,
\* and the loop requests the next page.
AmazonNextPage ==
  /\ agg_pc = "await"
  /\ \E i \in DOMAIN tasks :
       /\ tasks[i].kind = "amazon"
       /\ results[i].state = "pending"
       /\ Len(sent[i]) < max_pages_default
       /\ answered' = answered + 1
       /\ sent' = [sent EXCEPT ![i] = Append(@, NextOffset(@))]
  /\ UNCHANGED <<wd_param, caller, include_amazon, include_netflix, workday_targets, tasks,
                 results, gathered, agg_pc, completed, kwVars, fltVars, amzVars, nrmVars, epVars>>

\* A pending task is answered its last response (for Amazon an empty or
\* short page, or any page once max_pages are requested) and its wrapper
\* returns the normalized postings.
TaskReturns ==
  /\ agg_pc = "await"
  /\ \E i \in DOMAIN tasks : \E n \in 0..MaxTaskJobs :
       /\ results[i].state = "pending"
       /\ results' = [results EXCEPT ![i] = [state |-> "ok", jobs |-> TaskJobs(i, n)]]
       /\ answered' = (IF tasks[i].kind = "amazon" THEN answered + 1 ELSE answered)
       /\ completed' = Append(completed, i)
  /\ UNCHANGED <<wd_param, caller, include_amazon, include_netflix, workday_targets, tasks,
                 gathered, agg_pc, sent, kwVars, fltVars, amzVars, nrmVars, epVars>>

\* A pending task fails with an exception: its outstanding request fails
\* (error status, unparsable body, timeout), or the request is answered and
\* the normalizer raises (is_answered, counted for Amazon's pages).
TaskRaises ==
  /\ agg_pc = "await"
  /\ \E i \in DOMAIN tasks : \E is_answered \in BOOLEAN :
       /\ results[i].state = "pending"
       /\ results' = [results EXCEPT ![i] = Failed(i)]
       /\ (is_answered => tasks[i].kind = "amazon")
       /\ answered' = (IF is_answered THEN answered + 1 ELSE answered)
       /\ completed' = Append(completed, i)
  /\ UNCHANGED <<wd_param, caller, include_amazon, include_netflix, workday_targets, tasks,
                 gathered, agg_pc, sent, kwVars, fltVars, amzVars, nrmVars, epVars>>

\* All tasks have resolved: the results are collected and returned.
GatherCollect ==
  /\ agg_pc = "await"
  /\ \A i \in DOMAIN tasks : results[i].state # "pending"
  /\ gathered' = Collect(results, <<>>).jobs
  /\ agg_pc' = (IF Collect(results, <<>>).raised THEN "raised" ELSE "done")
  /\ UNCHANGED <<wd_param, caller, include_amazon, include_netflix, workday_targets, tasks,
                 results, completed, sent, answered, kwVars, fltVars, amzVars, nrmVars, epVars>>

AggNext ==
  JobsEndpoint \/ GatherLaunch \/ AmazonNextPage \/ TaskReturns \/ TaskRaises \/ GatherCollect

----------------------------------------------------------------------------
(* main.jobs_endpoint after gather_jobs_india has returned: the optional   *)
(* filter, the optional agent enforcement (main.enforce_jobs_strict) and   *)
(* the response.  The value of the local variable jobs is                  *)
(* [shape |-> "postings" | "str" | "none", val |-> ...]: a list of         *)
(* JobPosting, a str or None.                                              *)

Postings(l) == [shape |-> "postings", val |-> l]
StrValue(s) == [shape |-> "str", val |-> s]
NoneValue == [shape |-> "none", val |-> <<>>]

\* What Runner.run(job_manager, ...).final_output may be: the list handed in,
\* a repaired list, or, when the run ends in the agent job_manager hands off
\* to (emailer_agent, which has no output_type), a str or None.
FinalOutputs(pre) ==
  {Postings(pre)} \cup {Postings(l) : l \in SeqsUpTo(FltPostings, 1)}
    \cup {StrValue(<<"s","e","n","t">>), StrValue(<<>>), NoneValue}

\* return jsonify([j.model_dump() for j in jobs]): iterating None raises
\* TypeError, a character of a str has no model_dump (AttributeError); the
\* exception leaves the view and the request is answered with status 500.
Jsonify(v) ==
  IF v.shape = "postings" THEN [status |-> 200, body |-> v.val]
  ELSE IF v.shape = "str" /\ v.val = <<>> THEN [status |-> 200, body |-> <<>>]
  ELSE [status |-> 500, body |-> <<>>]

\* request.args.get("q", "Full Stack") and request.args.get("location")
EpQueries ==
  { <<>>, <<"F","u","l","l"," ","S","t","a","c","k">>, <<"p","w","c"," "," ","r","u","s","t">> }
EpLocs == { None, s_Mumbai }

EpIdle ==
  /\ ep_gathered = <<>> /\ ep_q = <<>> /\ ep_loc = None /\ strict = FALSE
  /\ ep_jobs = Postings(<<>>) /\ enforced = "no"
  /\ response = [status |-> 0, body |-> <<>>] /\ ep_pc = "idle"

\* gather_jobs_india has returned its list.
EpStart ==
  /\ ep_gathered \in SeqsUpTo(FltPostings, MaxJobs)
  /\ ep_q \in EpQueries
  /\ ep_loc \in EpLocs
  /\ strict \in BOOLEAN
  /\ ep_jobs = Postings(ep_gathered)
  /\ enforced = "no"
  /\ response = [status |-> 0, body |-> <<>>]
  /\ ep_pc = "filter"

\* if q or loc: jobs = filter_jobs(jobs, q=q, loc=loc); then if strict:
EndpointFilter ==
  /\ ep_pc = "filter"
  /\ ep_jobs' = (IF ~Falsy(ep_q) \/ ~Falsy(ep_loc)
                 THEN Postings(filter_jobs(ep_jobs.val, ep_q, ep_loc)) ELSE ep_jobs)
  /\ ep_pc' = (IF strict THEN "enforce" ELSE "respond")
  /\ UNCHANGED <<ep_gathered, ep_q, ep_loc, strict, enforced, response,
                 kwVars, fltVars, amzVars, nrmVars, aggVars>>

\* jobs = enforce_jobs_strict(jobs): the run returns its final_output.
EnforceReturns ==
  /\ ep_pc = "enforce"
  /\ \E final_output \in FinalOutputs(ep_jobs.val) : ep_jobs' = final_output
  /\ enforced' = "returned"
  /\ ep_pc' = "respond"
  /\ UNCHANGED <<ep_gathered, ep_q, ep_loc, strict, response,
                 kwVars, fltVars, amzVars, nrmVars, aggVars>>

\* enforce_jobs_strict raises: except Exception logs it and jobs keeps its
\* value.
EnforceRaises ==
  /\ ep_pc = "enforce"
  /\ enforced' = "raised"
  /\ ep_pc' = "respond"
  /\ UNCHANGED <<ep_gathered, ep_q, ep_loc, strict, ep_jobs, response,
                 kwVars, fltVars, amzVars, nrmVars, aggVars>>

\* return jsonify([j.model_dump() for j in jobs])
EndpointRespond ==
  /\ ep_pc = "respond"
  /\ response' = Jsonify(ep_jobs)
  /\ ep_pc' = "done"
  /\ UNCHANGED <<ep_gathered, ep_q, ep_loc, strict, ep_jobs, enforced,
                 kwVars, fltVars, amzVars, nrmVars, aggVars>>

EpNext == EndpointFilter \/ EnforceReturns \/ EnforceRaises \/ EndpointRespond

----------------------------------------------------------------------------
(* C1, C3 *)

\* The posting lists of the tasks that succeeded, in task order.
Succeeded ==
  Concat([i \in DOMAIN results |-> IF results[i].state = "ok" THEN results[i].jobs ELSE <<>>])

\* C1: whichever tasks fail with an exception, gather_jobs_india raises none
\* and returns the concatenation of the posting lists of the tasks that
\* succeeded: Workday then Netflix when only Amazon fails, the empty list
\* when every task fails.
C1_FailuresIsolated ==
  /\ agg_pc # "raised"
  /\ agg_pc = "done" =>
       /\ gathered = Succeeded
       /\ ((\A i \in DOMAIN results : results[i].state = "exc") => gathered = <<>>)
       /\ (( /\ Len(tasks) = 3
             /\ tasks[1].kind = "amazon" /\ tasks[2].kind = "workday" /\ tasks[3].kind = "netflix"
             /\ results[1].state = "exc" /\ results[2].state = "ok" /\ results[3].state = "ok" )
           => gathered = results[2].jobs \o results[3].jobs)

\* Amazon has failed, the Workday tenant and Netflix have each returned a
\* posting, and the call has returned those two.
C1_Witness ==
  /\ agg_pc = "done"
  /\ Len(tasks) = 3
  /\ tasks[1].kind = "amazon" /\ results[1].state = "exc"
  /\ tasks[2].kind = "workday" /\ results[2].state = "ok" /\ results[2].jobs # <<>>
  /\ tasks[3].kind = "netflix" /\ results[3].state = "ok" /\ results[3].jobs # <<>>
  /\ gathered = results[2].jobs \o results[3].jobs

\* C3: the tasks launched are one Amazon task iff include_amazon, one Workday
\* task for each triple of the workday_targets list the caller supplied (the
\* built-in tenant only when the caller supplied none), and one Netflix task
\* iff include_netflix.
C3_OneTaskPerEnabledSource ==
  agg_pc \in {"await", "done"} =>
    tasks = (IF include_amazon THEN <<[kind |-> "amazon"]>> ELSE <<>>)
              \o WorkdayTasks(IF workday_targets.null THEN <<DefaultTarget>>
                              ELSE workday_targets.val)
              \o (IF include_netflix THEN <<[kind |-> "netflix"]>> ELSE <<>>)

----------------------------------------------------------------------------
(* C8 *)

kw_react == <<"r","e","a","c","t">>
kw_aws == <<"a","w","s">>
kw_docker == <<"d","o","c","k","e","r">>
kw_go == <<"g","o">>

\* C8: _kw_stack returns exactly the vocabulary entries whose lower-cased form
\* is a substring of the lower-cased text, in vocabulary order and nothing
\* else; for the example sentence the result is {react, aws, docker}, without go.
C8_KwStackExact ==
  kw_pc = "done" =>
    /\ \A i \in DOMAIN stack : stack[i] \in Range(kws)
    /\ \A k \in Range(kws) : (k \in Range(stack)) <=> Contains(Lower(text), Lower(k))
    /\ \A i, j \in DOMAIN stack : i < j =>
         \E a, b \in DOMAIN kws : a < b /\ kws[a] = stack[i] /\ kws[b] = stack[j]
    /\ (text = ExampleText =>
          Range(stack) = {kw_react, kw_aws, kw_docker} /\ kw_go \notin Range(stack))

\* The example sentence has been scanned and has yielded three keywords.
C8_Witness ==
  /\ kw_pc = "done"
  /\ text = ExampleText
  /\ Len(stack) = 3

----------------------------------------------------------------------------
(* C4, C5, C6 *)

\* The lower-cased texts of a posting's fields; an absent location or
\* snippet contributes none.
FieldTexts(j) ==
  {Lower(j.title), Lower(j.company)}
    \cup (IF j.location = None THEN {} ELSE {Lower(j.location)})
    \cup {Lower(j.tech_stack[i]) : i \in DOMAIN j.tech_stack}
    \cup (IF j.description_snippet = None THEN {} ELSE {Lower(j.description_snippet)})

TokenInFields(j) ==
  \E i \in DOMAIN Tokens(q) : \E f \in FieldTexts(j) : Contains(f, Tokens(q)[i])

\* C4: with a query of at least one token and no location filter, filter_jobs
\* retains exactly the postings for which some lower-cased query token is a
\* substring of the lower-cased title, company, location, tech-stack entry or
\* snippet, an absent location or snippet contributing no text.
C4_QueryTokenInFields ==
  (flt_pc = "done" /\ Tokens(q) # <<>> /\ Falsy(loc)) => out = SelectSeq(jobs, TokenInFields)

\* The location predicate as the claim states it.
LocationHolds(j) ==
  Falsy(loc) \/ (j.location # None /\ Contains(Lower(j.location), Lower(loc)))

QueryAndLocation(j) == match_q(j, Tokens(q)) /\ LocationHolds(j)

\* C5: filter_jobs retains a posting iff the query predicate and the location
\* predicate both hold; the location predicate is a case-insensitive substring
\* test, and a posting without location never satisfies a non-empty filter.
C5_QueryAndLocation ==
  flt_pc = "done" => out = SelectSeq(jobs, QueryAndLocation)

\* Two postings match the query "pwc  rust"; under the location filter
\* "Mumbai" the one located in Pune is excluded, the one in MUMBAI is kept.
C5_Witness ==
  /\ flt_pc = "done"
  /\ loc = s_Mumbai
  /\ Len(jobs) = 2
  /\ jobs[1].location = s_Pune /\ match_q(jobs[1], Tokens(q))
  /\ out = <<jobs[2]>>

\* C6: with query and location both absent (None or empty), filter_jobs
\* returns its input: same postings, same order.
C6_FilterIdentity ==
  (flt_pc = "done" /\ Falsy(q) /\ Falsy(loc)) => out = jobs

\* A two-posting list has been filtered with query None and location None.
C6_Witness ==
  /\ flt_pc = "done"
  /\ q = None /\ loc = None
  /\ Len(jobs) = 2
  /\ out = jobs

----------------------------------------------------------------------------
(* C2 *)

\* C2: fetch_amazon_india requests no page after the first empty or short
\* page, never more than max_pages pages, and has accumulated exactly the rows
\* of the pages it was answered; a full page 0 followed by an empty page 1
\* makes 2 requests and page_size rows.
C2_PaginationStops ==
  /\ Len(requests) <= max_pages
  /\ \A i \in DOMAIN served : i < Len(requests) => Len(served[i]) >= page_size
  /\ rows = Concat(served)
  /\ (amz_pc \in {"filter", "done"} =>
        /\ Len(requests) = Len(served)
        /\ Len(served) >= 1
        /\ (Len(served[Len(served)]) < page_size \/ Len(requests) = max_pages))
  /\ (amz_pc = "fetch" => Len(requests) = Len(served) /\ Len(requests) < max_pages)
  /\ ((Len(served) >= 2 /\ Len(served[1]) = page_size /\ served[2] = <<>>) =>
        Len(requests) = 2 /\ Len(rows) = page_size /\ amz_pc \in {"filter", "done"})

\* Page 0 was answered with page_size rows and page 1 with none, and the
\* call has returned.
C2_Witness ==
  /\ amz_pc = "done"
  /\ page_size = 2
  /\ max_pages = 3
  /\ Len(served) = 2 /\ Len(served[1]) = 2 /\ served[2] = <<>>
  /\ requests = <<0, 2>>
  /\ Len(rows) = 2

----------------------------------------------------------------------------
(* C7, C9, C10 *)

\* The location text of a raw record as the claim reads it: for Workday
\* locationsText, else the joined city names of locations; for Netflix
\* location.  None when there is none.
LocationText(r) ==
  IF nrm_kind = "netflix" THEN Get(r, "location")
  ELSE IF ~Falsy(Get(r, "locationsText")) THEN r.locationsText
  ELSE IF "locations" \in DOMAIN r /\ ~r.locations.null
       THEN Join(<<",", " ">>, Cities(r.locations.val))
       ELSE None

MentionsIndia(r) == LocationText(r) # None /\ Contains(Lower(LocationText(r)), s_india)

\* C7: once norm_workday or norm_netflix has been called on a batch, the
\* postings emitted are those of exactly the records whose location text
\* contains "india" (any case), in input order; records with absent or
\* non-India location are dropped.
C7_EmittedIffIndia ==
  (nrm_pc \in {"done", "raised"} /\ nrm_kind \in {"workday", "netflix"}) =>
    LET india == SelectSeq(nrm_rows, MentionsIndia)
    IN  /\ Len(nrm_out) = Len(india)
        /\ \A k \in DOMAIN nrm_out : nrm_out[k].location = LocationText(india[k])

s_https == <<"h","t","t","p","s",":","/","/">>
s_wdhost == <<".","m","y","w","o","r","k","d","a","y","j","o","b","s",".","c","o","m">>
s_pwcJob123 == <<"h","t","t","p","s",":","/","/","p","w","c",".","m","y","w","o","r","k","d","a","y","j","o","b","s",".","c","o","m","/","j","o","b","/","1","2","3">>

\* C9: for every India-located Workday record whose externalPath begins with
\* "/", the posting's url is "https://" + company hint + ".myworkdayjobs.com"
\* + path; "/job/123" with hint "pwc" gives https://pwc.myworkdayjobs.com/job/123.
C9_WorkdayUrl ==
  (nrm_pc = "done" /\ nrm_kind = "workday") =>
    LET india == SelectSeq(nrm_rows, MentionsIndia)
    IN  /\ Len(nrm_out) = Len(india)
        /\ \A k \in DOMAIN nrm_out :
             LET path == Get(india[k], "externalPath")
             IN  (path # None /\ StartsWith(path, <<"/">>)) =>
                   /\ nrm_out[k].url = s_https \o company_hint \o s_wdhost \o path
                   /\ (path = s_job123 /\ company_hint = s_pwc => nrm_out[k].url = s_pwcJob123)

\* The record with externalPath "/job/123" has been normalized with hint "pwc".
C9_Witness ==
  /\ nrm_pc = "done" /\ nrm_kind = "workday"
  /\ company_hint = s_pwc
  /\ \E i \in DOMAIN nrm_rows : MentionsIndia(nrm_rows[i]) /\ Get(nrm_rows[i], "externalPath") = s_job123
  /\ \E k \in DOMAIN nrm_out : nrm_out[k].url = s_pwcJob123

\* C10: every JobPosting a normalizer emits has non-empty source, company
\* and title.
C10_RequiredFieldsNonEmpty ==
  nrm_pc = "done" =>
    \A k \in DOMAIN nrm_out :
      /\ ~Falsy(nrm_out[k].source)
      /\ ~Falsy(nrm_out[k].company)
      /\ ~Falsy(nrm_out[k].title)

----------------------------------------------------------------------------
(* C11 *)

\* A key of the record holds null.
NullKey(r) ==
  \E k \in DOMAIN r : IF k \in {"locations", "bulletFields"} THEN r[k].null ELSE r[k] = None

\* The title of a raw record as its normalizer reads it, "" when absent.
RawTitle(r) ==
  CASE nrm_kind = "workday" -> Or(Or(Get(r, "title"), Get(r, "title_facet")), <<>>)
    [] nrm_kind = "netflix" -> Or(Get(r, "name"), <<>>)
    [] OTHER -> Or(Or(Get(r, "title"), Get(r, "job_title")), <<>>)

\* A record is malformed when it lacks the required title or a key holds null.
Malformed(r) == NullKey(r) \/ RawTitle(r) = <<>>

\* The well-formed records a normalizer is to emit: all of them for Amazon,
\* the India-located ones for Workday and Netflix.
WellFormed(r) == ~Malformed(r) /\ (nrm_kind = "amazon" \/ MentionsIndia(r))

\* C11: a normalizer raises no exception on any batch; a malformed record
\* (required title missing, or a key holding null) is skipped on its own, and
\* the postings of the well-formed records of the batch are all emitted, in
\* input order.
C11_MalformedRecordSkipped ==
  nrm_pc \in {"done", "raised"} =>
    LET good == SelectSeq(nrm_rows, WellFormed)
    IN  /\ nrm_pc = "done"
        /\ Len(nrm_out) = Len(good)
        /\ \A k \in DOMAIN nrm_out : nrm_out[k].title = RawTitle(good[k])

----------------------------------------------------------------------------
(* C12 *)

\* The aggregated and filtered list, before the enforcement.
PreEnrichment ==
  IF ~Falsy(ep_q) \/ ~Falsy(ep_loc) THEN filter_jobs(ep_gathered, ep_q, ep_loc) ELSE ep_gathered

\* C12: in a /jobs request with strict enabled, whenever the enforcement has
\* raised or has returned a value that is not a list of JobPosting, the
\* request is answered with status 200 and the pre-enrichment list (the
\* gathered list after the filter).
C12_EnrichmentFallback ==
  ( /\ ep_pc = "done" /\ strict
    /\ (enforced = "raised" \/ (enforced = "returned" /\ ep_jobs.shape # "postings")) )
  => response = [status |-> 200, body |-> PreEnrichment]

----------------------------------------------------------------------------
(* C13 *)

\* The comma-delimited entries of the override string.
Entries == SplitOn(Strip(wd_param), ",", <<>>)

\* An entry has exactly three colon-separated parts iff it has two colons.
ValidEntry(e) == Cardinality({i \in DOMAIN e : e[i] = ":"}) = 2

IsWorkdayTask(t) == t.kind = "workday"

\* C13: no override string makes the request fail.  The Workday tasks are
\* those of the entries with exactly three colon-separated parts, in input
\* order, every other entry being dropped; when no entry is valid the one
\* task is that of the built-in tenant.  The list jobs_endpoint passes on is
\* the list of the valid entries, or None when there is none.
C13_OverridePermissive ==
  LET valid == SelectSeq(Entries, ValidEntry)
      wd == SelectSeq(tasks, IsWorkdayTask)
  IN  /\ agg_pc # "raised"
      /\ (caller = "jobs_endpoint" /\ agg_pc # "request") =>
           /\ workday_targets.null = (valid = <<>>)
           /\ ~workday_targets.null =>
                /\ Len(workday_targets.val) = Len(valid)
                /\ \A k \in DOMAIN valid :
                     /\ Len(workday_targets.val[k]) = 3
                     /\ Join(<<":">>, workday_targets.val[k]) = valid[k]
      /\ agg_pc \in {"await", "done"} =>
           IF valid = <<>> THEN wd = WorkdayTasks(<<DefaultTarget>>)
           ELSE /\ Len(wd) = Len(valid)
                /\ \A k \in DOMAIN valid :
                     Join(<<":">>, <<wd[k].host, wd[k].site, wd[k].hint>>) = valid[k]

\* The override "a:b,d:e:f," has been served: of its three entries only d:e:f
\* has three parts, and the one Workday task launched is that of d:e:f.
C13_Witness ==
  /\ agg_pc = "done"
  /\ caller = "jobs_endpoint"
  /\ wd_param = <<"a",":","b",",","d",":","e",":","f",",">>
  /\ Len(Entries) = 3
  /\ SelectSeq(tasks, IsWorkdayTask) = <<[kind |-> "workday", host |-> <<"d">>, site |-> <<"e">>, hint |-> <<"f">>]>>

----------------------------------------------------------------------------
(* C14 *)

\* The postings of task i in a list, in the order of the list.
OfTask(l, i) == SelectSeq(l, LAMBDA p : p[1] = i)

\* C14: whatever the order in which the tasks completed, in the list
\* gather_jobs_india returns the postings of one task are next to each other,
\* none of another task between them, and are all the postings the task
\* returned, in the order it returned them.
C14_ContiguousBlocks ==
  agg_pc = "done" =>
    /\ \A a, b \in DOMAIN gathered :
         (a < b /\ gathered[a][1] = gathered[b][1]) =>
           /\ \A c \in a..b : gathered[c][1] = gathered[a][1]
           /\ gathered[a][2] < gathered[b][2]
    /\ \A i \in DOMAIN results :
         OfTask(gathered, i) = (IF results[i].state = "ok" THEN results[i].jobs ELSE <<>>)

\* Two tasks have returned two postings each, the second task completing
\* before the first, and the list returned holds the four postings.
C14_Witness ==
  /\ agg_pc = "done"
  /\ Len(tasks) >= 2
  /\ completed[1] = 2
  /\ Len(results[1].jobs) = 2 /\ Len(results[2].jobs) = 2
  /\ Len(gathered) >= 4

----------------------------------------------------------------------------
(* C17 *)

\* Amazon before the Workday tenants before Netflix.
LaunchRank(t) == CASE t.kind = "amazon" -> 1 [] t.kind = "workday" -> 2 [] OTHER -> 3

\* C17: the list gather_jobs_india returns is determined by the results of
\* the tasks alone, not by the order in which they completed: its blocks are
\* in the order the tasks were launched, and the tasks were launched Amazon
\* first, then the Workday tenants in the order of the configuration, then
\* Netflix.
C17_LaunchOrder ==
  agg_pc = "done" =>
    /\ \A a, b \in DOMAIN gathered : a < b => gathered[a][1] <= gathered[b][1]
    /\ \A i \in DOMAIN tasks :
         Cardinality({a \in DOMAIN gathered : gathered[a][1] = i}) = Len(results[i].jobs)
    /\ \A i, j \in DOMAIN tasks : i < j => LaunchRank(tasks[i]) <= LaunchRank(tasks[j])
    /\ SelectSeq(tasks, IsWorkdayTask) = WorkdayTasks(GatherTargets(workday_targets, wd_param))

\* Amazon, one Workday tenant and Netflix have each returned a posting,
\* Netflix completing first and Amazon last, and the list returned is
\* Amazon's posting, the tenant's, Netflix's.
C17_Witness ==
  /\ agg_pc = "done"
  /\ Len(tasks) = 3
  /\ tasks[1].kind = "amazon" /\ tasks[2].kind = "workday" /\ tasks[3].kind = "netflix"
  /\ completed = <<3, 2, 1>>
  /\ gathered = << <<1, 1>>, <<2, 1>>, <<3, 1>> >>

----------------------------------------------------------------------------
(* C15 *)

\* The requests a task has issued so far: the k-th has offset
\* (k - 1) * page_size, so none is requested twice; of Amazon's requests at
\* most one is without response, so a request follows the response to the
\* one before; a task other than Amazon's issues one request; there is one
\* task for each configured Workday tenant and at most one for Netflix.
RequestsInOrder ==
  /\ \A i \in DOMAIN sent :
       /\ \A k \in DOMAIN sent[i] : sent[i][k] = (k - 1) * page_size_default
       /\ \A k, l \in DOMAIN sent[i] : k # l => sent[i][k] # sent[i][l]
       /\ (tasks[i].kind = "amazon" =>
             /\ answered <= Len(sent[i]) /\ Len(sent[i]) <= answered + 1
             /\ (results[i].state = "pending" => Len(sent[i]) = answered + 1)
             /\ (results[i].state = "ok" => Len(sent[i]) = answered))
       /\ (tasks[i].kind # "amazon" => Len(sent[i]) = 1)
  /\ agg_pc \in {"await", "done"} =>
       /\ Len(SelectSeq(tasks, IsWorkdayTask)) = Len(GatherTargets(workday_targets, wd_param))
       /\ Cardinality({i \in DOMAIN tasks : tasks[i].kind = "netflix"}) = (IF include_netflix THEN 1 ELSE 0)

\* A task that has failed or returned issues no further request, and a task
\* that has failed stays failed.
NoRequestAfterOutcome ==
  \A i \in DOMAIN results :
    results[i].state # "pending" =>
      /\ sent'[i] = sent[i]
      /\ results'[i] = results[i]

\* C15: within the Amazon task the page requests are issued one after the
\* other with offsets 0, page_size, 2 * page_size, ..., each only after the
\* response to the one before, no offset twice, and a failed request is not
\* issued again; each Workday tenant's task and Netflix's task issue exactly
\* one request in the aggregation cycle.
C15_RequestsOnceInOrder == []RequestsInOrder /\ [][NoRequestAfterOutcome]_vars

\* Amazon has requested the offsets 0, 50 and 100 and has returned, the
\* Workday tenant's one request has failed and Netflix's one request has been
\* answered.
C15_Witness ==
  /\ agg_pc = "done"
  /\ Len(tasks) = 3
  /\ tasks[1].kind = "amazon" /\ results[1].state = "ok" /\ sent[1] = <<0, 50, 100>>
  /\ tasks[2].kind = "workday" /\ results[2].state = "exc" /\ sent[2] = <<0>>
  /\ tasks[3].kind = "netflix" /\ results[3].state = "ok" /\ sent[3] = <<0>>

----------------------------------------------------------------------------
(* C16 *)

\* The Amazon task has ended with a page request that got no response, after
\* at least one earlier page was answered.
PageFailedAfterPages(i) ==
  /\ tasks[i].kind = "amazon"
  /\ results[i].state # "pending"
  /\ answered >= 1
  /\ Len(sent[i]) = answered + 1

\* C16: when an Amazon page request fails after one or more earlier pages
\* were answered, the Amazon task ends with the exception and returns none of
\* the rows of the earlier pages: gather_jobs_india does not raise, its list
\* holds no posting of Amazon and holds the postings of every other task.
C16_AmazonFailureDropsRows ==
  \A i \in DOMAIN tasks :
    PageFailedAfterPages(i) =>
      /\ results[i] = [state |-> "exc", jobs |-> <<>>]
      /\ agg_pc # "raised"
      /\ agg_pc = "done" =>
           /\ OfTask(gathered, i) = <<>>
           /\ \A j \in DOMAIN tasks : j # i => OfTask(gathered, j) = results[j].jobs

\* Amazon's request of offset 100 has failed after the pages at 0 and 50
\* were answered; the list returned holds the postings of the Workday tenant
\* and of Netflix only.
C16_Witness ==
  /\ agg_pc = "done"
  /\ Len(tasks) = 3
  /\ PageFailedAfterPages(1)
  /\ sent[1] = <<0, 50, 100>> /\ answered = 2
  /\ results[2].state = "ok" /\ results[2].jobs # <<>>
  /\ results[3].state = "ok" /\ results[3].jobs # <<>>
  /\ gathered = results[2].jobs \o results[3].jobs

----------------------------------------------------------------------------
(* C18 *)

\* The raw keys an optional field of the posting is read from.  Amazon's
\* snippet, which falls back to the title, has none here.
SourceKeys(field) ==
  CASE nrm_kind = "workday" ->
         ( CASE field = "job_id" -> {"bulletFields", "id"}
             [] field = "url" -> {"externalPath", "externalPathTriggered"}
             [] field = "location" -> {"locationsText", "locations"}
             [] OTHER -> {"title", "title_facet"} )
    [] nrm_kind = "netflix" ->
         ( CASE field = "job_id" -> {"ats_job_id", "id"}
             [] field = "url" -> {"canonicalPositionUrl"}
             [] field = "location" -> {"location"}
             [] OTHER -> {"name"} )
    [] OTHER ->
         ( CASE field = "job_id" -> {"id", "job_id"}
             [] field = "url" -> {"job_path"}
             [] OTHER -> {"normalized_location", "city_state_or_country", "location"} )

OptionalFields ==
  IF nrm_kind = "amazon" THEN {"job_id", "url", "location"}
  ELSE {"job_id", "url", "location", "description_snippet"}

\* C18: in every posting a normalizer emits, an optional field (job_id, url,
\* location, and outside Amazon the snippet) whose source keys are all
\* missing from the raw record is None; in particular job_id is None, not a
\* string, when the record has no identifier key.
C18_MissingIsAbsent ==
  nrm_pc = "done" =>
    LET emitted == IF nrm_kind = "amazon" THEN nrm_rows ELSE SelectSeq(nrm_rows, MentionsIndia)
    IN  /\ Len(nrm_out) = Len(emitted)
        /\ \A k \in DOMAIN nrm_out : \A field \in OptionalFields :
             (SourceKeys(field) \cap DOMAIN emitted[k] = {}) => nrm_out[k][field] = None

----------------------------------------------------------------------------
(* Specifications                                                          *)

InitKw == KwStart /\ FltIdle /\ AmzIdle /\ NrmIdle /\ AggIdle /\ EpIdle
SpecKw == InitKw /\ [][KwStack]_vars

InitFilter == FltStart /\ KwIdle /\ AmzIdle /\ NrmIdle /\ AggIdle /\ EpIdle
SpecFilter == InitFilter /\ [][FilterJobs]_vars

InitAmazon == AmzStart /\ KwIdle /\ FltIdle /\ NrmIdle /\ AggIdle /\ EpIdle
SpecAmazon == InitAmazon /\ [][AmzNext]_vars

InitNorm == NrmStart /\ KwIdle /\ FltIdle /\ AmzIdle /\ AggIdle /\ EpIdle
SpecNorm == InitNorm /\ [][NrmNext]_vars

InitGather == AggStart /\ KwIdle /\ FltIdle /\ AmzIdle /\ NrmIdle /\ EpIdle
SpecGather == InitGather /\ [][AggNext]_vars

InitEndpoint == EpStart /\ KwIdle /\ FltIdle /\ AmzIdle /\ NrmIdle /\ AggIdle
SpecEndpoint == InitEndpoint /\ [][EpNext]_vars

====
